---- MODULE Spec2Model ----
(***************************************************************************)
(* Model of the p0 engine: the Engine event handlers (engine.rs), the      *)
(* SwapChain (swapchain.rs), the RenderDevice acquisition                  *)
(* (render_device.rs, main.rs) and the Texture / TextureView ownership     *)
(* graph (texture.rs, render_resource.rs).                                 *)
(*                                                                         *)
(* Arc<T> / Weak<T> are modelled by explicit strong counts: an object is   *)
(* destroyed exactly when its strong count reaches 0, and a Weak resolves  *)
(* (upgrade) exactly while the strong count is positive.                   *)
(***************************************************************************)
EXTENDS Integers, Sequences, FiniteSets, TLC

\* ---------------------------------------------------------------- bounds
MaxWindows == 2        \* number of resumed signals (each creates a window)
MaxPending == 2        \* length of the toolkit's pending window-event queue
MaxCloses == 2         \* number of close requests the user issues
MaxExtent == 2         \* window extents are 1..MaxExtent

\* -------------------------------------------------------- program constants
RETRY_COUNT == 3

Extents == 1..MaxExtent
WindowIds == 1..MaxWindows
NoWindow == 0

\* surface capability lists returned by get_capabilities (may be empty)
CapLists == { <<>>, <<"Bgra8Unorm", "Rgba8Unorm">>, <<"Rgba8Unorm">> }

VARIABLES
    pc,              \* position of main: "start", "running", "exited", "aborted"
    render_device,   \* Engine.render_device
    window,          \* Engine.window : NoWindow or a window id
    swapchain,       \* Engine.swapchain : NoSwapChain or a SwapChain record
    windows,         \* the Arc<Window> allocations: strong count and live extent
    next_window,     \* id of the next window the toolkit creates
    next_surface,    \* id of the next surface the instance creates
    events,          \* toolkit queue of pending Resized / CloseRequested events
    redraw,          \* set of windows with a pending RedrawRequested
    closes,          \* number of close requests issued so far
    exit_requested,  \* event_loop.exit() has been called
    frame,           \* parity of the number of RedrawRequested events handled
    last             \* record of the handler that ran last and what it did

engineVars == << pc, render_device, window, swapchain, windows, next_window,
                 next_surface, events, redraw, closes, exit_requested, frame,
                 last >>

\* ------------------------------------------ Texture / TextureView state
MaxTextures == 2       \* textures created
MaxViews == 2          \* views created
MaxOwners == 2         \* owning Arc<Texture> handles per texture
MaxHandles == 1        \* unreleased Weak handles returned by resource()
MaxTexWidth == 2       \* texture widths are 1..MaxTexWidth

TextureIds == 1..MaxTextures
ViewIds == 1..MaxViews
NoTexture == 0

Formats == { "Rgba8Unorm", "Rgba16Float" }
TexExtents == { [ width |-> wd, height |-> 1, depth_or_array_layers |-> 1 ] :
                wd \in 1..MaxTexWidth }
MipCounts == { 1, 2 }
CreateInfos == [ extent : TexExtents, format : Formats, num_mips : MipCounts ]
ViewInfos == { [ base_mip |-> 0, num_mips |-> 1, base_slice |-> 0, num_slices |-> 1 ] }

VARIABLES
    textures,      \* the Arc<Texture> allocations: counts, info, backing texture
    views,         \* the TextureViews: parent Weak and view descriptor
    handles,       \* per texture, Weak handles returned by resource() and not yet dropped
    next_texture,  \* id of the next texture
    next_view,     \* id of the next view
    tex_last       \* the texture operation that ran last and its result

texVars == << textures, views, handles, next_texture, next_view, tex_last >>

NoTex == [ strong |-> 0, weak |-> 0, created |-> FALSE ]
NoView == [ alive |-> FALSE ]

NoCreateInfo == [ num_mips |-> 0 ]

TexRec(op, texture, view, result, handle) ==
    [ op |-> op, texture |-> texture, view |-> view, result |-> result,
      handle |-> handle, create_info |-> NoCreateInfo ]

\* the same for a Texture::new, with the create-info it was given
TexRecNew(texture, create_info) ==
    [ TexRec("Texture::new", texture, 0, "Ok", NoTexture)
        EXCEPT !.create_info = create_info ]

TexIdle == TexRec("none", NoTexture, 0, "none", NoTexture)

\* ------------------------------------------------------------- Option values
NoDevice == [some |-> FALSE]
NoSwapChain == [some |-> FALSE]
NoConfig == [some |-> FALSE]

\* ------------------------------------------------------------ Arc<Window>
\* Arc::clone
ArcClone(wins, w) == [wins EXCEPT ![w].strong = @ + 1]

\* drop(Arc): the window is destroyed when the last strong reference goes
ArcDrop(wins, w) == [wins EXCEPT ![w].strong = @ - 1]

\* Weak::upgrade: Some(window) while a strong reference exists, else None
Upgrade(wins, w) == IF w # NoWindow /\ wins[w].strong > 0 THEN w ELSE NoWindow

\* Window::inner_size
inner_size(wins, w) == wins[w].inner_size

\* dropping an Option<Arc<Window>>
DropWindowOpt(wins, w) == IF w = NoWindow THEN wins ELSE ArcDrop(wins, w)

\* dropping an Option<SwapChain>: the surface releases the window handle it kept
DropSwapChainOpt(wins, sc) ==
    IF sc.some /\ sc.surface.handle_source # NoWindow
    THEN ArcDrop(wins, sc.surface.handle_source)
    ELSE wins

\* ------------------------------------------------------------- SwapChain
\* TextureFormat::add_srgb_suffix
add_srgb_suffix(f) ==
    IF f = "Rgba8Unorm" THEN "Rgba8UnormSrgb"
    ELSE IF f = "Bgra8Unorm" THEN "Bgra8UnormSrgb"
    ELSE f

\* SwapChain::new taking the last supported format instead of the first
SwapChainNew_last_format(wins, w, caps, keeps, sid) ==
    [ some |-> TRUE,
      surface |-> [ id |-> sid,
                    handle_source |-> IF keeps THEN w ELSE NoWindow,
                    formats |-> caps,
                    config |-> NoConfig ],
      surface_format |-> caps[Len(caps)],
      window |-> w,
      size |-> inner_size(wins, w) ]

\* SwapChain::new once create_surface has succeeded with a non-empty
\* capability list.  The Arc passed to create_surface is moved into the
\* surface; whether the surface keeps it (handle_source = w) or releases it
\* (handle_source = NoWindow) is decided by the graphics library.  formats is
\* what surface.get_capabilities(&adapter) lists for this surface.
SwapChainNew(wins, w, caps, keeps, sid) ==
    [ some |-> TRUE,
      surface |-> [ id |-> sid,
                    handle_source |-> IF keeps THEN w ELSE NoWindow,
                    formats |-> caps,
                    config |-> NoConfig ],
      surface_format |-> caps[1],
      window |-> w,
      size |-> inner_size(wins, w) ]

\* configure_surface that forgets to record the extent it configured
configure_surface_stale_size(sc, extent) ==
    [ sc EXCEPT
        !.surface.config = [ some |-> TRUE,
                             usage |-> "RENDER_ATTACHMENT",
                             format |-> sc.surface_format,
                             view_formats |-> << add_srgb_suffix(sc.surface_format) >>,
                             alpha_mode |-> "Auto",
                             extent |-> extent,
                             desired_maximum_frame_latency |-> 2,
                             present_mode |-> "AutoVsync" ] ]

\* SwapChain::configure_surface
configure_surface(sc, extent) ==
    [ sc EXCEPT
        !.surface.config = [ some |-> TRUE,
                             usage |-> "RENDER_ATTACHMENT",
                             format |-> sc.surface_format,
                             view_formats |-> << add_srgb_suffix(sc.surface_format) >>,
                             alpha_mode |-> "Auto",
                             extent |-> extent,
                             desired_maximum_frame_latency |-> 2,
                             present_mode |-> "AutoVsync" ],
        !.size = extent ]

\* need_configuration reading the window without checking that it resolved
need_configuration_unchecked(sc, wins) ==
    sc.size # inner_size(wins, sc.window)

\* SwapChain::need_configuration
need_configuration(sc, wins) ==
    LET w == Upgrade(wins, sc.window) IN
    IF w # NoWindow THEN sc.size # inner_size(wins, w) ELSE FALSE

\* SwapChain::is_valid
is_valid(sc, wins) ==
    LET w == Upgrade(wins, sc.window) IN
    IF w # NoWindow THEN sc.size # inner_size(wins, w) ELSE FALSE

\* ----------------------------------------------------------- RenderDevice
\* RenderDevice::new returning a context without device and queue when
\* request_device fails, instead of the error
RenderDeviceNew_partial(outcome) ==
    IF outcome = "no_adapter"
    THEN [ ok |-> FALSE, err |-> "Unavailable",
           reason |-> "Failed to get adapter from current device" ]
    ELSE IF outcome = "no_device"
    THEN [ ok |-> TRUE,
           value |-> [ some |-> TRUE, instance |-> TRUE, adapter |-> TRUE,
                       device |-> FALSE, queue |-> FALSE ] ]
    ELSE [ ok |-> TRUE,
           value |-> [ some |-> TRUE, instance |-> TRUE, adapter |-> TRUE,
                       device |-> TRUE, queue |-> TRUE ] ]

\* RenderDevice::new: instance, then adapter, then device and queue; the
\* first failing step is wrapped into DeviceError::Unavailable(reason)
RenderDeviceNew(outcome) ==
    IF outcome = "no_adapter"
    THEN [ ok |-> FALSE, err |-> "Unavailable",
           reason |-> "Failed to get adapter from current device" ]
    ELSE IF outcome = "no_device"
    THEN [ ok |-> FALSE, err |-> "Unavailable",
           reason |-> "Failed to create logical device" ]
    ELSE [ ok |-> TRUE,
           value |-> [ some |-> TRUE, instance |-> TRUE, adapter |-> TRUE,
                       device |-> TRUE, queue |-> TRUE ] ]

DeviceOutcomes == { "ok", "no_adapter", "no_device" }

\* ------------------------------------------------------ handler bookkeeping
\* what the most recent handler was given and what it did
Rec(handler, fails, extent, attempts, created, ops, result) ==
    [ handler |-> handler, fails |-> fails, extent |-> extent,
      attempts |-> attempts, created |-> created, ops |-> ops,
      result |-> result, acquire |-> "none" ]

\* the same for a RedrawRequested that reached get_current_texture
RecAcquire(acquire, ops, result) ==
    [ Rec("RedrawRequested", 0, 0, 0, 0, ops, result) EXCEPT !.acquire = acquire ]

Idle == Rec("none", 0, 0, 0, 0, <<>>, "none")

\* number of occurrences of op in a handler's operation log
RECURSIVE Count(_, _)
Count(ops, op) ==
    IF ops = <<>> THEN 0
    ELSE (IF Head(ops) = op THEN 1 ELSE 0) + Count(Tail(ops), op)

\* the toolkit forgets the pending events of windows that were destroyed,
\* and those that were addressed to no window of the engine
Purge(evs, wins) ==
    LET Alive(e) == e.window # NoWindow /\ wins[e.window].strong > 0
    IN  SelectSeq(evs, Alive)

\* ------------------------------------------------------------------- Init
Init ==
    /\ pc = "start"
    /\ render_device = NoDevice
    /\ window = NoWindow
    /\ swapchain = NoSwapChain
    /\ windows = [ w \in WindowIds |-> [ strong |-> 0, inner_size |-> 1 ] ]
    /\ next_window = 1
    /\ next_surface = 1
    /\ events = <<>>
    /\ redraw = {}
    /\ closes = 0
    /\ exit_requested = FALSE
    /\ frame = 0
    /\ last = Idle
    /\ textures = [ t \in TextureIds |-> NoTex ]
    /\ views = [ v \in ViewIds |-> NoView ]
    /\ handles = [ t \in TextureIds |-> 0 ]
    /\ next_texture = 1
    /\ next_view = 1
    /\ tex_last = TexIdle

\* ------------------------------------------------------- main, Engine::new
\* main: Engine::new() once; an Err is logged and the process panics,
\* otherwise the event loop is entered
EngineNew ==
    /\ pc = "start"
    /\ \E outcome \in DeviceOutcomes :
         LET r == RenderDeviceNew(outcome) IN
         IF r.ok
         THEN /\ render_device' = r.value
              /\ pc' = "running"
              /\ last' = Rec("Engine::new", 0, 0, 1, 0, <<>>, "Ok")
         ELSE /\ render_device' = NoDevice
              /\ pc' = "aborted"
              /\ last' = Rec("Engine::new", 0, 0, 1, 0, <<"log_error">>, r.err)
    /\ UNCHANGED << window, swapchain, windows, next_window, next_surface,
                    events, redraw, closes, exit_requested >>
    /\ UNCHANGED frame
    /\ UNCHANGED texVars

\* --------------------------------------------------------- Engine::resumed
\* the array literal [0..RETRY_COUNT] the retry loop iterates over: an array
\* holding one Range value
RetryLoopItems == << [ start |-> 0, end |-> RETRY_COUNT ] >>

\* the retry loop: one SwapChain::new per item, leaving at the first Ok.
\* fails is the number of leading attempts whose create_surface fails.
RECURSIVE RetryLoop(_, _)
RetryLoop(i, fails) ==
    IF i > Len(RetryLoopItems) THEN [ attempts |-> i - 1, created |-> FALSE ]
    ELSE IF i > fails THEN [ attempts |-> i, created |-> TRUE ]
    ELSE RetryLoop(i + 1, fails)

\* the if-let after the loop leaving the stored swapchain unconfigured
configure_or_panic_unconfigured(sc, extent) ==
    IF sc.some
    THEN [ panic |-> FALSE, sc |-> sc ]
    ELSE [ panic |-> TRUE, sc |-> sc ]

\* the if-let after the loop without its panicking else branch
configure_or_continue(sc, extent) ==
    IF sc.some
    THEN [ panic |-> FALSE, sc |-> configure_surface(sc, extent) ]
    ELSE [ panic |-> FALSE, sc |-> sc ]

\* the if-let after the loop: configure the stored swapchain, or panic
\* when there is none
configure_or_panic(sc, extent) ==
    IF sc.some
    THEN [ panic |-> FALSE, sc |-> configure_surface(sc, extent) ]
    ELSE [ panic |-> TRUE, sc |-> sc ]

RepeatOp(op, n) == [ k \in 1..n |-> op ]

resumed ==
    /\ pc = "running"
    /\ next_window <= MaxWindows
    /\ \E createWindowOk \in BOOLEAN, size0 \in Extents, fails \in 0..RETRY_COUNT,
          caps \in CapLists, keeps \in BOOLEAN :
         LET w == next_window
             \* Arc::new(create_window(..).unwrap())
             wins1 == [ windows EXCEPT ![w] = [ strong |-> 1, inner_size |-> size0 ] ]
             loop == RetryLoop(1, fails)
             tries == RepeatOp("create_surface", loop.attempts)
             \* the clones handed to SwapChain::new are dropped again, except
             \* the one the created surface keeps
             wins2 == IF loop.created /\ caps # <<>> /\ keeps
                      THEN ArcClone(wins1, w) ELSE wins1
             created == SwapChainNew(wins1, w, caps, keeps, next_surface)
             \* self.swapchain = Some(swapchain) drops the previous value
             wins3 == IF loop.created THEN DropSwapChainOpt(wins2, swapchain) ELSE wins2
             sc1 == IF loop.created THEN created ELSE swapchain
             cfg == configure_or_panic(sc1, inner_size(wins1, w))
             \* self.window = Some(window) drops the previous value
             wins4 == DropWindowOpt(wins3, window)
         IN
         IF ~createWindowOk
         THEN \* unwrap() of the failed create_window
              /\ pc' = "aborted"
              /\ last' = Rec("resumed", fails, 0, 0, 0, <<"create_window">>,
                             "panic: create_window")
              /\ UNCHANGED << window, swapchain, windows, next_window,
                              next_surface, events, redraw >>
         ELSE IF loop.created /\ caps = <<>>
         THEN \* cap.formats[0] on an empty list
              /\ pc' = "aborted"
              /\ last' = Rec("resumed", fails, 0, loop.attempts, 0,
                             <<"create_window">> \o tries, "panic: no surface format")
              /\ UNCHANGED << window, swapchain, windows, next_window,
                              next_surface, events, redraw >>
         ELSE IF cfg.panic
         THEN \* panic!("Failed to create swapchain after {:?} retry")
              /\ pc' = "aborted"
              /\ last' = Rec("resumed", fails, 0, loop.attempts, 0,
                             <<"create_window">> \o tries,
                             "panic: Failed to create swapchain")
              /\ UNCHANGED << window, swapchain, windows, next_window,
                              next_surface, events, redraw >>
         ELSE /\ swapchain' = cfg.sc
              /\ window' = w
              /\ windows' = wins4
              /\ next_window' = next_window + 1
              /\ next_surface' = IF loop.created THEN next_surface + 1 ELSE next_surface
              /\ events' = Purge(events, wins4)
              /\ redraw' = { x \in (redraw \cup {w}) \ {NoWindow} : wins4[x].strong > 0 }
              /\ pc' = "running"
              /\ last' = Rec("resumed", fails, inner_size(wins1, w), loop.attempts,
                             IF loop.created THEN next_surface ELSE 0,
                             <<"create_window">> \o tries
                                \o <<"configure_surface", "request_redraw">>,
                             "Ok")
    /\ UNCHANGED << render_device, closes, exit_requested >>
    /\ UNCHANGED frame
    /\ UNCHANGED texVars

\* ------------------------------------------------------------ environment
\* the user or the window system changes a window's size; the toolkit
\* queues a Resized event carrying the new size
WindowSizeChange ==
    /\ pc = "running"
    /\ Len(events) < MaxPending
    /\ \E w \in WindowIds, e \in Extents :
         /\ windows[w].strong > 0
         /\ e # windows[w].inner_size
         /\ windows' = [ windows EXCEPT ![w].inner_size = e ]
         /\ events' = Append(events, [ type |-> "Resized", window |-> w, size |-> e ])
    /\ last' = Idle
    /\ UNCHANGED << pc, render_device, window, swapchain, next_window,
                    next_surface, redraw, closes, exit_requested >>
    /\ UNCHANGED frame
    /\ UNCHANGED texVars

\* the user presses a window's close button
CloseButton ==
    /\ pc = "running"
    /\ Len(events) < MaxPending
    /\ closes < MaxCloses
    /\ \E w \in WindowIds :
         /\ windows[w].strong > 0
         /\ events' = Append(events, [ type |-> "CloseRequested", window |-> w, size |-> 0 ])
    /\ closes' = closes + 1
    /\ last' = Idle
    /\ UNCHANGED << pc, render_device, window, swapchain, windows, next_window,
                    next_surface, redraw, exit_requested >>
    /\ UNCHANGED frame
    /\ UNCHANGED texVars

\* the window system asks for a window to be repainted
WindowExposed ==
    /\ pc = "running"
    /\ \E w \in WindowIds :
         /\ windows[w].strong > 0
         /\ w \notin redraw
         /\ redraw' = redraw \cup {w}
    /\ last' = Idle
    /\ UNCHANGED << pc, render_device, window, swapchain, windows, next_window,
                    next_surface, events, closes, exit_requested >>
    /\ UNCHANGED frame
    /\ UNCHANGED texVars

\* window_event ignores its WindowId: a Resized event can reach the engine
\* before resumed has given it a window
EarlyResized ==
    /\ pc = "running"
    /\ window = NoWindow
    /\ Len(events) < MaxPending
    /\ \E e \in Extents :
         events' = Append(events, [ type |-> "Resized", window |-> NoWindow, size |-> e ])
    /\ last' = Idle
    /\ UNCHANGED << pc, render_device, window, swapchain, windows, next_window,
                    next_surface, redraw, closes, exit_requested >>
    /\ UNCHANGED frame
    /\ UNCHANGED texVars

\* the same for a RedrawRequested event
EarlyRedrawRequested ==
    /\ pc = "running"
    /\ window = NoWindow
    /\ NoWindow \notin redraw
    /\ redraw' = redraw \cup {NoWindow}
    /\ last' = Idle
    /\ UNCHANGED << pc, render_device, window, swapchain, windows, next_window,
                    next_surface, events, closes, exit_requested >>
    /\ UNCHANGED frame
    /\ UNCHANGED texVars

\* run_app returns once exit has been requested
LoopExit ==
    /\ pc = "running"
    /\ exit_requested
    /\ pc' = "exited"
    /\ last' = Idle
    /\ UNCHANGED << render_device, window, swapchain, windows, next_window,
                    next_surface, events, redraw, closes, exit_requested >>
    /\ UNCHANGED frame
    /\ UNCHANGED texVars

\* ---------------------------------------------------- Engine::window_event
\* WindowEvent::CloseRequested
OnCloseRequested ==
    /\ pc = "running"
    /\ events # <<>>
    /\ Head(events).type = "CloseRequested"
    /\ events' = Tail(events)
    /\ exit_requested' = TRUE
    /\ last' = Rec("CloseRequested", 0, 0, 0, 0, <<"log_info", "exit">>, "Ok")
    /\ UNCHANGED << pc, render_device, window, swapchain, windows, next_window,
                    next_surface, redraw, closes >>
    /\ UNCHANGED frame
    /\ UNCHANGED texVars

\* results of Surface::get_current_texture
AcquireOutcomes == { "Ok", "Timeout", "Outdated", "Lost", "OutOfMemory" }

\* Engine::render presenting the target before the clear is submitted
render_present_before_submit(win, sc, acquire) ==
    IF win = NoWindow
    THEN [ ops |-> <<>>, result |-> "Err(Unexpected)", acquire |-> "none" ]
    ELSE IF ~sc.some
    THEN [ ops |-> <<>>, result |-> "Err(Unexpected)", acquire |-> "none" ]
    ELSE IF acquire # "Ok"
    THEN [ ops |-> <<"get_current_texture">>, result |-> "panic",
           acquire |-> acquire ]
    ELSE [ ops |-> << "get_current_texture", "create_view", "begin_render_pass",
                      "pre_present_notify", "present", "submit" >>,
           result |-> "Ok", acquire |-> acquire ]

\* Engine::render without the two ok_or(..)? checks
render_unchecked(win, sc, acquire) ==
    IF acquire # "Ok"
    THEN [ ops |-> <<"get_current_texture">>, result |-> "panic",
           acquire |-> acquire ]
    ELSE [ ops |-> << "get_current_texture", "create_view", "begin_render_pass",
                      "submit", "pre_present_notify", "present" >>,
           result |-> "Ok", acquire |-> acquire ]

\* Engine::render: the operations it performs and how it ends
render(win, sc, acquire) ==
    IF win = NoWindow
    THEN [ ops |-> <<>>, result |-> "Err(Unexpected)", acquire |-> "none" ]
    ELSE IF ~sc.some
    THEN [ ops |-> <<>>, result |-> "Err(Unexpected)", acquire |-> "none" ]
    ELSE IF acquire # "Ok"
    THEN \* expect("failed to acquire next swapchain texture")
         [ ops |-> <<"get_current_texture">>, result |-> "panic",
           acquire |-> acquire ]
    ELSE [ ops |-> << "get_current_texture", "create_view", "begin_render_pass",
                      "submit", "pre_present_notify", "present" >>,
           result |-> "Ok", acquire |-> acquire ]

\* WindowEvent::RedrawRequested
OnRedrawRequested ==
    /\ pc = "running"
    /\ \E w \in redraw, acquire \in AcquireOutcomes :
         LET r == render(window, swapchain, acquire) IN
         IF r.result = "Ok"
         THEN /\ redraw' = (redraw \ {w}) \cup (IF window # NoWindow THEN {window} ELSE {})
              /\ pc' = "running"
              /\ last' = RecAcquire(r.acquire,
                                    r.ops \o (IF window # NoWindow
                                              THEN <<"request_redraw">> ELSE <<>>),
                                    "Ok")
         ELSE IF r.result = "panic"
         THEN /\ redraw' = redraw \ {w}
              /\ pc' = "aborted"
              /\ last' = RecAcquire(r.acquire, r.ops, "panic")
         ELSE /\ redraw' = redraw \ {w}
              /\ pc' = "running"
              /\ last' = RecAcquire(r.acquire, r.ops \o <<"log_error">>, r.result)
    /\ UNCHANGED << render_device, window, swapchain, windows, next_window,
                    next_surface, events, closes, exit_requested >>
    /\ frame' = 1 - frame
    /\ UNCHANGED texVars

\* WindowEvent::Resized(size)
OnResized ==
    /\ pc = "running"
    /\ events # <<>>
    /\ Head(events).type = "Resized"
    /\ events' = Tail(events)
    /\ IF swapchain.some
       THEN /\ swapchain' = configure_surface(swapchain, Head(events).size)
            /\ last' = Rec("Resized", 0, Head(events).size, 0, 0,
                           <<"configure_surface">>, "Ok")
       ELSE /\ swapchain' = swapchain
            /\ last' = Rec("Resized", 0, Head(events).size, 0, 0, <<>>, "Ok")
    /\ UNCHANGED << pc, render_device, window, windows, next_window,
                    next_surface, redraw, closes, exit_requested >>
    /\ UNCHANGED frame
    /\ UNCHANGED texVars

\* ------------------------------------------------- Texture / TextureView
\* wgpu TextureFormat::block_copy_size for the modelled formats
block_copy_size(format) == IF format = "Rgba8Unorm" THEN 4 ELSE 8

\* wgpu TextureFormat::theoretical_memory_footprint (1x1 blocks)
theoretical_memory_footprint(format, extent) ==
    extent.width * extent.height * extent.depth_or_array_layers
        * block_copy_size(format)

\* TextureCreateInfo::request_size
request_size(create_info) ==
    theoretical_memory_footprint(create_info.format, create_info.extent)

\* Texture::new: the value placed in the new Arc
TextureValue(create_info) ==
    [ strong |-> 1, weak |-> 0, created |-> TRUE,
      texture |-> [ live |-> TRUE,
                    size |-> create_info.extent,
                    mip_level_count |-> 1,
                    sample_count |-> 1,
                    dimension |-> "D2",
                    format |-> "Rgba8Unorm" ],
      info |-> [ base_info |-> [ flags |-> "NONE",
                                 request_size |-> request_size(create_info),
                                 allocation_size |-> 0 ],
                 extent |-> create_info.extent,
                 format |-> create_info.format ] ]

\* Arc::clone(&Arc<Texture>)
TexArcClone(texs, t) == [ texs EXCEPT ![t].strong = @ + 1 ]

\* drop(Arc<Texture>): the Texture value, and with it the backing GPU
\* texture, is dropped when the last strong reference goes
TexArcDrop(texs, t) ==
    IF texs[t].strong = 1
    THEN [ texs EXCEPT ![t].strong = 0, ![t].texture.live = FALSE ]
    ELSE [ texs EXCEPT ![t].strong = @ - 1 ]

\* Arc::downgrade
TexDowngrade(texs, t) == [ texs EXCEPT ![t].weak = @ + 1 ]

\* drop(Weak<Texture>)
TexWeakDrop(texs, t) == [ texs EXCEPT ![t].weak = @ - 1 ]

\* Weak::upgrade: a new strong reference while one exists, else None
TexUpgrade(texs, t) ==
    IF texs[t].strong > 0
    THEN [ some |-> TRUE, texs |-> TexArcClone(texs, t) ]
    ELSE [ some |-> FALSE, texs |-> texs ]

\* create_view keeping an owning Arc in the view instead of a Weak
create_view_owning(texs, t, view_info) ==
    [ texs |-> TexArcClone(texs, t),
      view |-> [ alive |-> TRUE,
                 parent |-> t,
                 view |-> [ format |-> texs[t].info.format,
                            base_mip_level |-> view_info.base_mip,
                            mip_level_count |-> view_info.num_mips,
                            base_array_layer |-> view_info.base_slice,
                            array_layer_count |-> view_info.num_slices ] ] ]

\* Texture::create_view on an Arc<Texture>: the view and the counts after it
create_view(texs, t, view_info) ==
    [ texs |-> TexDowngrade(texs, t),
      view |-> [ alive |-> TRUE,
                 parent |-> t,
                 view |-> [ format |-> texs[t].info.format,
                            base_mip_level |-> view_info.base_mip,
                            mip_level_count |-> view_info.num_mips,
                            base_array_layer |-> view_info.base_slice,
                            array_layer_count |-> view_info.num_slices ] ] ]

\* resource handing out the parent without upgrading the Weak
resource_unchecked(texs, v) ==
    [ texs |-> TexDowngrade(texs, v.parent), result |-> "Ok", handle |-> v.parent ]

\* TextureView::resource: upgrade the parent; on Some hand out a new Weak
\* and drop the upgraded Arc again, on None fail with Orphan
resource(texs, v) ==
    LET up == TexUpgrade(texs, v.parent) IN
    IF up.some
    THEN [ texs |-> TexArcDrop(TexDowngrade(up.texs, v.parent), v.parent),
           result |-> "Ok", handle |-> v.parent ]
    ELSE [ texs |-> up.texs, result |-> "Err(Orphan)", handle |-> NoTexture ]

\* Texture::new
TextureNew ==
    /\ next_texture <= MaxTextures
    /\ \E create_info \in CreateInfos :
         /\ textures' = [ textures EXCEPT ![next_texture] = TextureValue(create_info) ]
         /\ tex_last' = TexRecNew(next_texture, create_info)
    /\ next_texture' = next_texture + 1
    /\ UNCHANGED << views, handles, next_view >>
    /\ UNCHANGED engineVars

\* an owner shares the texture
TextureClone ==
    /\ \E t \in TextureIds :
         /\ textures[t].strong > 0
         /\ textures[t].strong < MaxOwners
         /\ textures' = TexArcClone(textures, t)
         /\ tex_last' = TexRec("clone", t, 0, "Ok", NoTexture)
    /\ UNCHANGED << views, handles, next_texture, next_view >>
    /\ UNCHANGED engineVars

\* an owner drops its Arc<Texture>
TextureDrop ==
    /\ \E t \in TextureIds :
         /\ textures[t].strong > 0
         /\ textures' = TexArcDrop(textures, t)
         /\ tex_last' = TexRec("drop", t, 0, "Ok", NoTexture)
    /\ UNCHANGED << views, handles, next_texture, next_view >>
    /\ UNCHANGED engineVars

\* Texture::create_view, called through an owning Arc
CreateView ==
    /\ next_view <= MaxViews
    /\ \E t \in TextureIds, view_info \in ViewInfos :
         /\ textures[t].strong > 0
         /\ LET r == create_view(textures, t, view_info) IN
              /\ textures' = r.texs
              /\ views' = [ views EXCEPT ![next_view] = r.view ]
         /\ tex_last' = TexRec("create_view", t, next_view, "Ok", NoTexture)
    /\ next_view' = next_view + 1
    /\ UNCHANGED << handles, next_texture >>
    /\ UNCHANGED engineVars

\* a TextureView is dropped
ViewDrop ==
    /\ \E v \in ViewIds :
         /\ views[v].alive
         /\ textures' = TexWeakDrop(textures, views[v].parent)
         /\ views' = [ views EXCEPT ![v] = NoView ]
         /\ tex_last' = TexRec("drop_view", views[v].parent, v, "Ok", NoTexture)
    /\ UNCHANGED << handles, next_texture, next_view >>
    /\ UNCHANGED engineVars

\* TextureView::resource
ViewResource ==
    /\ \E v \in ViewIds :
         /\ views[v].alive
         /\ handles[views[v].parent] < MaxHandles
         /\ LET r == resource(textures, views[v]) IN
              /\ textures' = r.texs
              /\ handles' = IF r.result = "Ok"
                            THEN [ handles EXCEPT ![r.handle] = @ + 1 ]
                            ELSE handles
              /\ tex_last' = TexRec("resource", views[v].parent, v, r.result, r.handle)
    /\ UNCHANGED << views, next_texture, next_view >>
    /\ UNCHANGED engineVars

\* the caller drops a Weak handle it got from resource()
HandleDrop ==
    /\ \E t \in TextureIds :
         /\ handles[t] > 0
         /\ textures' = TexWeakDrop(textures, t)
         /\ handles' = [ handles EXCEPT ![t] = @ - 1 ]
         /\ tex_last' = TexRec("drop_handle", t, 0, "Ok", NoTexture)
    /\ UNCHANGED << views, next_texture, next_view >>
    /\ UNCHANGED engineVars

vars == << engineVars, texVars >>

Next ==
    \/ EngineNew
    \/ resumed
    \/ WindowSizeChange
    \/ CloseButton
    \/ WindowExposed
    \/ EarlyResized
    \/ EarlyRedrawRequested
    \/ LoopExit
    \/ OnCloseRequested
    \/ OnRedrawRequested
    \/ OnResized

Spec == Init /\ [][Next]_vars

NextTex ==
    \/ TextureNew
    \/ TextureClone
    \/ TextureDrop
    \/ CreateView
    \/ ViewDrop
    \/ ViewResource
    \/ HandleDrop

SpecTex == Init /\ [][NextTex]_vars

\* the toolkit's loop keeps dispatching: a pending event or redraw is
\* delivered, and run_app returns once exit has been requested
SpecLive ==
    /\ Init
    /\ [][Next]_vars
    /\ WF_vars(OnRedrawRequested)
    /\ WF_vars(OnResized)
    /\ WF_vars(OnCloseRequested)
    /\ WF_vars(LoopExit)

\* ================================================================ claims

\* C1: on resumed, when surface creation fails on the first two attempts
\* and would succeed on the third, the handler makes exactly 3 attempts,
\* stores the swapchain it created, configures it and returns normally
\* (the engine is Renderable, no fatal abort).
C1_TwoFailuresThenRenderable ==
    ( /\ last.handler = "resumed"
      /\ last.result # "panic: create_window"
      /\ last.fails = 2 )
    => ( /\ last.attempts = 3
         /\ pc = "running"
         /\ last.result = "Ok"
         /\ swapchain.some
         /\ swapchain.surface.id = last.created
         /\ swapchain.surface.config.some
         /\ window # NoWindow )

\* C2: on resumed, when every surface creation attempt fails, the handler
\* aborts fatally after exactly 3 attempts; it never returns normally.
C2_AllFailuresAbortAfterThree ==
    ( /\ last.handler = "resumed"
      /\ last.result # "panic: create_window"
      /\ last.fails = RETRY_COUNT )
    => ( /\ last.attempts = 3
         /\ pc = "aborted"
         /\ last.result = "panic: Failed to create swapchain" )

\* C3: a RedrawRequested whose get_current_texture fails does not abort:
\* render returns an error value that is logged, nothing is submitted or
\* presented, and the engine keeps running.
C3_AcquireFailureNonFatal ==
    ( /\ last.handler = "RedrawRequested"
      /\ last.acquire \notin { "none", "Ok" } )
    => ( /\ pc = "running"
         /\ last.result \notin { "Ok", "panic" }
         /\ Count(last.ops, "log_error") = 1
         /\ Count(last.ops, "submit") = 0
         /\ Count(last.ops, "present") = 0 )

\* C4: whenever render() has acquired the next surface target, the extent
\* the swapchain was last configured with equals the live extent of the
\* engine's window.
C4_AcquireOnlyWithMatchingExtent ==
    ( /\ last.handler = "RedrawRequested"
      /\ Count(last.ops, "get_current_texture") = 1 )
    => ( /\ swapchain.surface.config.some
         /\ swapchain.surface.config.extent = windows[window].inner_size
         /\ swapchain.size = windows[window].inner_size )

\* C5: is_valid() is true only while the swapchain's window still resolves
\* and its live extent equals the last-configured extent; it is false once
\* the window is gone.
C5_IsValidMeansWindowMatches ==
    swapchain.some =>
        /\ is_valid(swapchain, windows) =>
              ( /\ windows[swapchain.window].strong > 0
                /\ windows[swapchain.window].inner_size = swapchain.size )
        /\ windows[swapchain.window].strong = 0 => ~is_valid(swapchain, windows)

\* C6: need_configuration() is true if and only if the swapchain's window
\* still resolves and its live extent differs from the last-configured
\* extent; it is false when the window no longer resolves.
C6_NeedConfigurationIff ==
    swapchain.some =>
        ( need_configuration(swapchain, windows)
          <=> ( /\ windows[swapchain.window].strong > 0
                /\ windows[swapchain.window].inner_size # swapchain.size ) )

\* C6 witness: the window is gone, the extents differ, and the answer is false
C6_Witness ==
    /\ swapchain.some
    /\ windows[swapchain.window].strong = 0
    /\ windows[swapchain.window].inner_size # swapchain.size
    /\ ~need_configuration(swapchain, windows)

\* C7 as stated: after configure_surface(E) returns, for any E,
\* need_configuration() is false.  Stated for the Resized handler of an
\* engine whose swapchain refers to the engine's own window.
C7_Original ==
    ( /\ last.handler = "Resized"
      /\ Count(last.ops, "configure_surface") = 1
      /\ swapchain.window = window )
    => ~need_configuration(swapchain, windows)

\* C7 amended: after configure_surface(E) returns, need_configuration() is
\* false provided E equals the live extent of the swapchain's window (or
\* that window no longer resolves), and true otherwise; once false it stays
\* false as long as the stored extent and the window's live extent do not
\* change, also when the window becomes unresolvable.
C7_ConfiguredToLiveExtent ==
    /\ [] ( ( /\ last.handler \in { "Resized", "resumed" }
              /\ Count(last.ops, "configure_surface") = 1 )
            => /\ swapchain.size = last.extent
               /\ need_configuration(swapchain, windows)
                    <=> ( /\ windows[swapchain.window].strong > 0
                          /\ windows[swapchain.window].inner_size # last.extent ) )
    /\ [][ ( /\ swapchain.some
             /\ swapchain'.some
             /\ ~need_configuration(swapchain, windows)
             /\ swapchain'.window = swapchain.window
             /\ swapchain'.size = swapchain.size
             /\ windows'[swapchain.window].inner_size
                  = windows[swapchain.window].inner_size )
           => ~need_configuration(swapchain', windows') ]_vars

\* C7 witness: Resized(E) with E the window's live extent has just reconfigured
C7_Witness ==
    /\ last.handler = "Resized"
    /\ Count(last.ops, "configure_surface") = 1
    /\ windows[swapchain.window].strong > 0
    /\ windows[swapchain.window].inner_size = last.extent
    /\ swapchain.surface.config.extent = last.extent
    /\ ~need_configuration(swapchain, windows)

\* C8: between event handlers Engine.window and Engine.swapchain are both
\* absent or both present.
C8_WindowAndSwapchainTogether ==
    pc # "aborted" => ( (window = NoWindow) <=> ~swapchain.some )

\* C8 witness: resumed has returned with both stored
C8_Witness ==
    /\ pc = "running"
    /\ last.handler = "resumed"
    /\ window # NoWindow
    /\ swapchain.some

\* C9: resource() returns Ok, with a handle to the live parent, exactly
\* while the parent Texture has an owning reference, and Err(Orphan) with
\* no handle once the last owning reference has been dropped.
C9_ResourceOkIffOwned ==
    tex_last.op = "resource" =>
        /\ tex_last.result \in { "Ok", "Err(Orphan)" }
        /\ tex_last.result = "Ok" <=> textures[tex_last.texture].strong > 0
        /\ tex_last.result = "Ok" =>
              ( /\ tex_last.handle = views[tex_last.view].parent
                /\ textures[tex_last.handle].texture.live )
        /\ tex_last.result = "Err(Orphan)" => tex_last.handle = NoTexture

\* C9 witness: resource() on a view whose parent was destroyed
C9_Witness ==
    /\ tex_last.op = "resource"
    /\ textures[tex_last.texture].strong = 0
    /\ ~textures[tex_last.texture].texture.live
    /\ tex_last.result = "Err(Orphan)"

\* C10: creating, resolving or dropping views (and the handles resolve
\* returns) leaves every Texture's owning-reference count unchanged, and a
\* Texture is destroyed exactly in the step that drops its last owning
\* reference, however many views exist.
C10_ViewsNeverExtendLifetime ==
    /\ [][ tex_last'.op \in { "create_view", "resource", "drop_view", "drop_handle" }
           => \A t \in TextureIds : textures'[t].strong = textures[t].strong ]_vars
    /\ [][ \A t \in TextureIds :
             textures[t].created =>
               ( (textures[t].texture.live /\ ~textures'[t].texture.live)
                 <=> ( /\ tex_last'.op = "drop"
                       /\ tex_last'.texture = t
                       /\ textures[t].strong = 1 ) ) ]_vars
    /\ [] ( \A t \in TextureIds :
              textures[t].created => (textures[t].texture.live <=> textures[t].strong > 0) )

\* C10 witness: a Texture destroyed while two views of it are still held
C10_Witness ==
    \E t \in TextureIds :
        /\ textures[t].created
        /\ textures[t].strong = 0
        /\ ~textures[t].texture.live
        /\ Cardinality({ v \in ViewIds : views[v].alive /\ views[v].parent = t }) = 2

\* C11: the SwapChain holds no owning reference to its window: the window's
\* owning references are exactly those of the Engine, so a window the
\* Engine no longer stores is destroyed, no longer resolves, and is_valid()
\* is false.
C11_SwapChainNeverOwnsWindow ==
    swapchain.some =>
        /\ windows[swapchain.window].strong
             = (IF window = swapchain.window THEN 1 ELSE 0)
        /\ window # swapchain.window =>
              ( /\ Upgrade(windows, swapchain.window) = NoWindow
                /\ ~is_valid(swapchain, windows) )

\* C12: the CloseRequested handler requests loop exit once, and after a
\* close no window-event handler requests exit again or requests a redraw,
\* whatever events are still delivered (a RedrawRequested that was already
\* pending included).
C12_CloseStopsRedraw ==
    [][ last'.handler \in { "CloseRequested", "RedrawRequested", "Resized" } =>
          /\ (~exit_requested /\ exit_requested') => Count(last'.ops, "exit") = 1
          /\ exit_requested =>
                ( /\ Count(last'.ops, "exit") = 0
                  /\ Count(last'.ops, "request_redraw") = 0 ) ]_vars

\* C13: in a Renderable engine, a RedrawRequested whose render fails is
\* followed, unless a close is requested, by another RedrawRequested being
\* handled: the render loop is not stuck.
C13_FailedFrameRendersAgain ==
    /\ ( /\ last.handler = "RedrawRequested"
         /\ last.result # "Ok"
         /\ window # NoWindow
         /\ swapchain.some
         /\ frame = 0 ) ~> ( exit_requested \/ frame = 1 )
    /\ ( /\ last.handler = "RedrawRequested"
         /\ last.result # "Ok"
         /\ window # NoWindow
         /\ swapchain.some
         /\ frame = 1 ) ~> ( exit_requested \/ frame = 0 )

\* C14: a resumed signal whose window is created and whose first surface
\* creation attempt succeeds returns normally after one attempt, with the
\* window and the new swapchain stored, the swapchain configured to the
\* window's current extent (need_configuration() is false) and exactly one
\* redraw requested.
C14_ResumedFirstAttempt ==
    ( /\ last.handler = "resumed"
      /\ last.fails = 0
      /\ last.result \notin { "panic: create_window", "panic: no surface format" } )
    => ( /\ pc = "running"
         /\ last.result = "Ok"
         /\ last.attempts = 1
         /\ window # NoWindow
         /\ swapchain.some
         /\ swapchain.surface.id = last.created
         /\ swapchain.window = window
         /\ swapchain.surface.config.some
         /\ swapchain.surface.config.extent = windows[window].inner_size
         /\ swapchain.size = windows[window].inner_size
         /\ ~need_configuration(swapchain, windows)
         /\ Count(last.ops, "request_redraw") = 1
         /\ window \in redraw )

\* C14 witness: the first resumed of a fresh engine succeeded at once
C14_Witness ==
    /\ last.handler = "resumed"
    /\ last.fails = 0
    /\ last.result = "Ok"
    /\ next_window = 2
    /\ swapchain.surface.id = 1
    /\ swapchain.surface.config.extent = windows[window].inner_size

\* C15: in a Renderable engine the Resized(E) handler sets the swapchain's
\* configured extent to E and does nothing else: it acquires, submits and
\* presents nothing, requests no redraw, and leaves the window reference,
\* the swapchain's window back-reference and the surface format unchanged.
C15_ResizedOnlyReconfigures ==
    [][ ( /\ last'.handler = "Resized"
          /\ window # NoWindow
          /\ swapchain.some )
        => ( /\ swapchain'.some
             /\ swapchain'.size = last'.extent
             /\ swapchain'.surface.config.some
             /\ swapchain'.surface.config.extent = last'.extent
             /\ last'.extent = Head(events).size
             /\ last'.ops = <<"configure_surface">>
             /\ swapchain'.surface_format = swapchain.surface_format
             /\ swapchain'.window = swapchain.window
             /\ swapchain'.surface.id = swapchain.surface.id
             /\ window' = window
             /\ windows' = windows
             /\ redraw' = redraw
             /\ frame' = frame
             /\ exit_requested' = exit_requested
             /\ pc' = pc ) ]_vars

\* C15 witness: a Resized handler has just reconfigured a Renderable
\* engine's swapchain to an extent other than the window's first one
C15_Witness ==
    /\ last.handler = "Resized"
    /\ last.ops = <<"configure_surface">>
    /\ window # NoWindow
    /\ swapchain.size = last.extent
    /\ last.extent = 2

C17_RequestSizeReflectsAllInputs ==
    tex_last.op = "Texture::new" =>
        LET ci == tex_last.create_info
            recorded == textures[tex_last.texture].info.base_info.request_size
        IN  /\ recorded = request_size(ci)
            /\ \A other \in CreateInfos :
                 /\ ( /\ other.format # ci.format
                      /\ other.extent = ci.extent
                      /\ other.num_mips = ci.num_mips )
                    => request_size(other) # recorded
                 /\ ( /\ other.format = ci.format
                      /\ other.extent # ci.extent
                      /\ other.num_mips = ci.num_mips )
                    => request_size(other) # recorded
                 /\ ( /\ other.format = ci.format
                      /\ other.extent = ci.extent
                      /\ other.num_mips # ci.num_mips
                      /\ ci.extent.width >= 2 )
                    => request_size(other) # recorded

\* C18: a RedrawRequested whose render succeeds acquires the next target,
\* then submits the clear, then presents, each once and in this order;
\* nothing touches the target after present, and exactly one redraw is
\* requested, after the present, so that the next frame is pending.
C18_FrameOrderAndLoop ==
    ( /\ last.handler = "RedrawRequested" /\ last.result = "Ok" )
    => ( /\ window # NoWindow /\ swapchain.some
         /\ last.acquire = "Ok"
         /\ Count(last.ops, "get_current_texture") = 1
         /\ Count(last.ops, "submit") = 1
         /\ Count(last.ops, "present") = 1
         /\ Count(last.ops, "request_redraw") = 1
         /\ \E i, j, k \in 1..Len(last.ops) :
              /\ i < j /\ j < k
              /\ last.ops[i] = "get_current_texture"
              /\ last.ops[j] = "submit"
              /\ last.ops[k] = "present"
              /\ \A m \in 1..Len(last.ops) :
                   /\ m < i => last.ops[m] \notin { "create_view", "begin_render_pass",
                                                     "submit", "present" }
                   /\ m > k => last.ops[m] = "request_redraw"
         /\ last.ops[Len(last.ops)] = "request_redraw"
         /\ window \in redraw
         /\ pc = "running" )

\* C18 witness: a frame has been rendered and presented and the next
\* redraw is pending
C18_Witness ==
    /\ last.handler = "RedrawRequested"
    /\ last.result = "Ok"
    /\ Count(last.ops, "present") = 1
    /\ window \in redraw
    /\ frame = 1

\* C19: a swapchain's surface_format is the first entry of its surface's
\* supported-format list, every configuration uses it, and as long as the
\* engine holds the same swapchain a step changes at most the configured
\* extent (the surface configuration's extent and the recorded size):
\* surface_format and the window back-reference never change.
C19_FormatFixedAtCreation ==
    /\ [] ( swapchain.some =>
              /\ swapchain.surface_format = swapchain.surface.formats[1]
              /\ swapchain.surface.config.some =>
                    /\ swapchain.surface.config.format = swapchain.surface_format
                    /\ swapchain.surface.config.extent = swapchain.size )
    /\ [][ ( /\ swapchain.some /\ swapchain'.some
             /\ swapchain'.surface.id = swapchain.surface.id )
           => ( /\ swapchain'.surface_format = swapchain.surface_format
                /\ swapchain'.window = swapchain.window
                /\ swapchain'.surface.config.some
                /\ swapchain' = [ swapchain EXCEPT
                                    !.size = swapchain'.size,
                                    !.surface.config = swapchain'.surface.config ]
                /\ swapchain.surface.config.some =>
                     swapchain'.surface.config =
                        [ swapchain.surface.config EXCEPT !.extent = swapchain'.size ] )
         ]_vars

\* C19 witness: a swapchain created on a surface with two supported
\* formats has been reconfigured to another extent by a Resized event
C19_Witness ==
    /\ swapchain.some
    /\ Len(swapchain.surface.formats) = 2
    /\ swapchain.surface_format = "Bgra8Unorm"
    /\ last.handler = "Resized"
    /\ Count(last.ops, "configure_surface") = 1
    /\ swapchain.size # windows[swapchain.window].inner_size

\* C20: a RedrawRequested or Resized event handled while the engine has no
\* window or no swapchain does no GPU work and does not panic: render
\* returns Err(Unexpected), which is only logged, Resized does nothing,
\* no redraw is requested and the engine's fields are unchanged.
C20_EventsBeforeResumedAreInert ==
    [][ ( /\ (window = NoWindow \/ ~swapchain.some)
          /\ last'.handler \in { "RedrawRequested", "Resized" } )
        => ( /\ last'.handler = "RedrawRequested" =>
                  ( /\ last'.result = "Err(Unexpected)"
                    /\ last'.ops = <<"log_error">>
                    /\ last'.acquire = "none"
                    /\ redraw' \subseteq redraw
                    /\ events' = events )
             /\ last'.handler = "Resized" =>
                  ( /\ last'.result = "Ok"
                    /\ last'.ops = <<>>
                    /\ redraw' = redraw
                    /\ events' = Tail(events) )
             /\ pc' = "running"
             /\ window' = window
             /\ swapchain' = swapchain
             /\ render_device' = render_device
             /\ windows' = windows
             /\ next_window' = next_window
             /\ next_surface' = next_surface
             /\ exit_requested' = exit_requested ) ]_vars

\* C20 witness: a RedrawRequested was handled before any resumed and
\* ended in the logged Err(Unexpected)
C20_Witness ==
    /\ last.handler = "RedrawRequested"
    /\ last.result = "Err(Unexpected)"
    /\ window = NoWindow
    /\ swapchain = NoSwapChain
    /\ next_window = 1
    /\ pc = "running"

\* C21: after every resumed handler that returns normally, the stored
\* swapchain was created by that handler, from the window the engine now
\* stores; a swapchain of an earlier resume is never kept.
C21_SwapchainOfThisResume ==
    ( /\ last.handler = "resumed" /\ last.result = "Ok" )
    => ( /\ swapchain.some
         /\ window # NoWindow
         /\ last.created # 0
         /\ swapchain.surface.id = last.created
         /\ swapchain.window = window )

\* C22: a Texture records the format, extent and mip count its backing GPU
\* texture was created with (the ones of the create-info), so a view made
\* by create_view has the format of the backing texture.
C22_InfoMatchesBackingTexture ==
    /\ \A t \in TextureIds :
         textures[t].created =>
            /\ textures[t].info.format = textures[t].texture.format
            /\ textures[t].info.extent = textures[t].texture.size
    /\ tex_last.op = "Texture::new" =>
         /\ textures[tex_last.texture].info.format = tex_last.create_info.format
         /\ textures[tex_last.texture].info.extent = tex_last.create_info.extent
         /\ textures[tex_last.texture].texture.mip_level_count
               = tex_last.create_info.num_mips
    /\ \A v \in ViewIds :
         views[v].alive =>
            views[v].view.format = textures[views[v].parent].texture.format

====
